---------------------------- MODULE Spec2Model ----------------------------
(***************************************************************************)
(* TerrorGraph Explorer (src/terrorgraph_app.py): a Streamlit script that  *)
(* loads an event table once (st.cache_data), derives the sidebar filter   *)
(* domains from the rows of the selected group, filters those rows and     *)
(* renders metrics, three tabs and a CSV export.  Streamlit runs the       *)
(* script top to bottom on every interaction; one run is one cycle here,   *)
(* one action per widget or statement group of the script.                 *)
(*                                                                         *)
(* Encoding.  Group, country and attack-type names are the naturals 1..n   *)
(* (their rank in sorted order); None is -1 (a null cell, Python's None,   *)
(* or a script variable not yet assigned).  A DataFrame selected by a      *)
(* boolean mask keeps the index labels of its parent, so a derived frame   *)
(* is the set of row indices of df it holds.  A sorted list of distinct    *)
(* values is the set of its members.  A string is a sequence of            *)
(* one-character strings.                                                  *)
(*                                                                         *)
(* The rows returned by the query of lines 13-28 are the environment's     *)
(* choice (raw); the file does not bind the name Graph, the model takes    *)
(* the connection and the query to have succeeded.                         *)
(***************************************************************************)
EXTENDS Integers, Sequences, FiniteSets

None == -1

\* ------------------------------------------------------------- inputs
\* The number of rows the query returns is at most MaxRows.
MaxRows == 2

\* The values the cells of a result take.  Fatality counts other than 0
\* come from the store, 0 from the fill of a null; the wounded count is
\* null in every row, the script only fills it.
Years == {1, 2}
Groups == {1, 2}
Countries == {1, 2}
Types == {1}
Cities == {1}
Kills == {1}

\* The text-box inputs: no keyword, a plain word, a pattern that matches
\* the empty string, and a pattern the re module rejects.
Keywords == { <<>>, <<"a">>, <<".", "*">>, <<"(">> }

\* One record of the query's result (lines 16-26).
RawRows ==
    [ year : Years \cup {None},
      gname : Groups \cup {None},
      country_txt : Countries,
      city : Cities,
      attacktype1_txt : Types \cup {None},
      nkill : Kills \cup {None},
      nwound : {None} ]

\* The query has no ORDER BY and nothing in the script depends on the
\* order of the rows: tables are enumerated up to reordering.
RowCode(r) ==
    LET d(v) == v + 1
    IN ((((d(r.year) * 8 + d(r.gname)) * 8 + d(r.country_txt)) * 8
          + d(r.attacktype1_txt)) * 8 + d(r.nkill)) * 8 + d(r.nwound)

RawTables ==
    { t \in UNION { [1..n -> RawRows] : n \in 0..MaxRows } :
        \A i \in 1..(Len(t) - 1) : RowCode(t[i]) <= RowCode(t[i + 1]) }

\* ------------------------------------------------------------- pandas
SetMin(S) == CHOOSE x \in S : \A y \in S : x <= y
SetMax(S) == CHOOSE x \in S : \A y \in S : y <= x

\* fillna left out: a null cell stays null
FillNaKeepsNull(v) == v

\* Series.fillna(0)
FillNa(v) == IF v = None THEN 0 ELSE v

\* Series.astype(int) raises on a null cell
AsTypeIntFails(t) == \E i \in 1..Len(t) : t[i].year = None

\* load_data, lines 28-36, on a result it can convert
LoadData(t) ==
    [ i \in 1..Len(t) |->
        [ year |-> t[i].year,
          gname |-> t[i].gname,
          country_txt |-> t[i].country_txt,
          city |-> t[i].city,
          attacktype1_txt |-> t[i].attacktype1_txt,
          nkill |-> FillNa(t[i].nkill),
          nwound |-> FillNa(t[i].nwound),
          iyear |-> t[i].year,
          summary |-> <<>> ] ]

\* The columns of the loaded frame: those of the query, plus iyear, summary.
Columns ==
    { "year", "gname", "country_txt", "city", "attacktype1_txt",
      "nkill", "nwound", "iyear", "summary" }

\* series.dropna().unique() over the rows S of table t
Unique(t, S, col) == { t[i][col] : i \in S } \ {None}

\* -------------------------------------------------------------- regex
\* Series.str.contains(pat, case=False, na=False) keeps pandas' default
\* regex=True: pat is compiled by re and searched for.  The patterns of
\* the model are sequences of items, an item being a letter or "." and
\* an optional "*"; "(" opens a group that is never closed.
Lower(c) == IF c = "A" THEN "a" ELSE c

ReCompiles(pat) ==
    \A p \in 1..Len(pat) :
        /\ pat[p] # "("
        /\ pat[p] = "*" => (p > 1 /\ pat[p - 1] # "*")

CharMatch(pc, c) == pc = "." \/ Lower(pc) = Lower(c)

RECURSIVE MatchHere(_, _, _, _)
RECURSIVE MatchStar(_, _, _, _, _)
MatchHere(pat, p, s, k) ==
    IF p > Len(pat) THEN TRUE
    ELSE IF p + 1 <= Len(pat) /\ pat[p + 1] = "*"
         THEN MatchStar(pat[p], pat, p + 2, s, k)
    ELSE IF k <= Len(s) /\ CharMatch(pat[p], s[k])
         THEN MatchHere(pat, p + 1, s, k + 1)
    ELSE FALSE

MatchStar(c, pat, p, s, k) ==
    \/ MatchHere(pat, p, s, k)
    \/ (k <= Len(s) /\ CharMatch(c, s[k]) /\ MatchStar(c, pat, p, s, k + 1))

\* re.search: a match starting anywhere, the end of the string included
ReSearch(pat, s) == \E k \in 1..(Len(s) + 1) : MatchHere(pat, 1, s, k)

StrContains(s, pat) == ReSearch(pat, s)


\* A comparison of a column with a scalar: a null cell, or a comparison
\* with None, is False in every row.
PdEq(cell, value) == cell # None /\ value # None /\ cell = value

\* st.selectbox: one of the options, None when there are none
SelectBox(options) == IF options = {} THEN {None} ELSE options

\* safe_slider without its guard: a slider whatever the domain
SafeSliderNeverLocks(min_val, max_val) == FALSE

\* safe_slider, line 44: the domain has collapsed to one value
SafeSliderLocks(min_val, max_val) == min_val = max_val

\* The value of the year control: a (low, high) tuple from the range
\* slider, or the scalar safe_slider returns (held in lo and hi).
Tuple(lo, hi) == [tuple |-> TRUE, lo |-> lo, hi |-> hi]
Scalar(v) == [tuple |-> FALSE, lo |-> v, hi |-> v]

\* ------------------------------------------------------------- state
VARIABLES
    raw,                \* the rows the query returns
    cache,              \* st.cache_data's entry for load_data
    df,                 \* the script's table
    pc,                 \* the statement the run is at
    err,                \* the exception that ended the run, or "none"
    group_list, group,
    filtered_by_group,
    country_list, country,
    min_year, max_year, year_range, year_ctl,
    attack_types, selected_types,
    min_kills, max_kills, kill_filter, kill_ctl,
    keyword,
    filtered,
    warning,            \* st.warning was shown in this run
    metrics,            \* the three st.metric values
    outputs,            \* what the run has rendered, in order
    prev                \* the previous run's group, country and domains

sidebar == <<group_list, group, filtered_by_group, country_list, country,
             min_year, max_year, year_range, year_ctl,
             attack_types, selected_types,
             min_kills, max_kills, kill_filter, kill_ctl, keyword>>
page == <<filtered, warning, metrics, outputs>>
vars == <<raw, cache, df, pc, err, sidebar, page, prev>>

Idx == 1..Len(df)

NoMetrics == [events |-> None, fatalities |-> None, countries |-> None]
NoPrev == [ran |-> FALSE, group |-> None, country |-> None,
           group_list |-> {}, country_list |-> {}]

\* A run starts with no script variable assigned and nothing rendered.
FreshRun ==
    /\ df = <<>>
    /\ err = "none"
    /\ group_list = {} /\ group = None
    /\ filtered_by_group = {}
    /\ country_list = {} /\ country = None
    /\ min_year = None /\ max_year = None
    /\ year_range = Scalar(None) /\ year_ctl = "none"
    /\ attack_types = {} /\ selected_types = {}
    /\ min_kills = None /\ max_kills = None
    /\ kill_filter = None /\ kill_ctl = "none"
    /\ keyword = <<>>
    /\ filtered = {}
    /\ warning = FALSE
    /\ metrics = NoMetrics
    /\ outputs = <<>>

Init ==
    /\ raw \in RawTables
    /\ cache = [hit |-> FALSE, value |-> <<>>]
    /\ pc = "load"
    /\ prev = NoPrev
    /\ FreshRun

\* ----------------------------------------------------------- the run
Raise(e) == pc' = "error" /\ err' = e

\* line 38: df = load_data(), cached once it has returned
Load ==
    /\ pc = "load"
    /\ IF cache.hit
         THEN /\ df' = cache.value
              /\ pc' = "group"
              /\ UNCHANGED <<cache, err>>
       ELSE IF Len(raw) = 0
         THEN Raise("KeyError") /\ UNCHANGED <<cache, df>>
       ELSE IF AsTypeIntFails(raw)
         THEN Raise("TypeError") /\ UNCHANGED <<cache, df>>
       ELSE /\ cache' = [hit |-> TRUE, value |-> LoadData(raw)]
            /\ df' = LoadData(raw)
            /\ pc' = "group"
            /\ UNCHANGED err
    /\ UNCHANGED <<raw, sidebar, page, prev>>

\* line 62
GroupDomain(t) == Unique(t, 1..Len(t), "gname")

\* lines 62-63
SelectGroup ==
    /\ pc = "group"
    /\ group_list' = GroupDomain(df)
    /\ group' \in SelectBox(GroupDomain(df))
    /\ pc' = "country"
    /\ UNCHANGED <<raw, cache, df, err, filtered_by_group, country_list,
                   country, min_year, max_year, year_range, year_ctl,
                   attack_types, selected_types, min_kills, max_kills,
                   kill_filter, kill_ctl, keyword, page, prev>>

\* line 65
FilterByGroup(t, g) == { i \in 1..Len(t) : PdEq(t[i].gname, g) }

\* the country options taken from the full table
CountryDomainOfTable(t, rows) == Unique(t, 1..Len(t), "country_txt")

\* line 66
CountryDomain(t, rows) == Unique(t, rows, "country_txt")

\* lines 65-67
SelectCountry ==
    /\ pc = "country"
    /\ filtered_by_group' = FilterByGroup(df, group)
    /\ country_list' = CountryDomain(df, FilterByGroup(df, group))
    /\ country' \in SelectBox(CountryDomain(df, FilterByGroup(df, group)))
    /\ pc' = "years"
    /\ UNCHANGED <<raw, cache, df, err, group_list, group,
                   min_year, max_year, year_range, year_ctl,
                   attack_types, selected_types, min_kills, max_kills,
                   kill_filter, kill_ctl, keyword, page, prev>>

\* lines 69-70: the rows the year bounds are taken from
YearRows(t, rows) == IF rows # {} THEN rows ELSE 1..Len(t)

\* lines 69-71
SelectYears ==
    /\ pc = "years"
    /\ LET ys == { df[i].iyear : i \in YearRows(df, filtered_by_group) }
           lo == SetMin(ys)
           hi == SetMax(ys)
       IN /\ min_year' = lo
          /\ max_year' = hi
          /\ IF SafeSliderLocks(lo, hi)
               THEN /\ year_ctl' = "locked"
                    /\ year_range' = Scalar(lo)
               ELSE /\ year_ctl' = "slider"
                    /\ \E a \in lo..hi : \E b \in a..hi :
                          year_range' = Tuple(a, b)
    /\ prev' = NoPrev
    /\ pc' = "types"
    /\ UNCHANGED <<raw, cache, df, err, group_list, group,
                   filtered_by_group, country_list, country,
                   attack_types, selected_types, min_kills, max_kills,
                   kill_filter, kill_ctl, keyword, page>>

\* lines 73-74
SelectTypes ==
    /\ pc = "types"
    /\ attack_types' = Unique(df, filtered_by_group, "attacktype1_txt")
    /\ selected_types' \in
          SUBSET Unique(df, filtered_by_group, "attacktype1_txt")
    /\ pc' = "kills"
    /\ UNCHANGED <<raw, cache, df, err, group_list, group,
                   filtered_by_group, country_list, country,
                   min_year, max_year, year_range, year_ctl,
                   min_kills, max_kills, kill_filter, kill_ctl,
                   keyword, page, prev>>

\* lines 76-77: min() and max() of an empty series are NaN, and int(NaN)
\* raises ValueError
KillBoundsFail(rows) == rows = {}

\* lines 76-78
SelectKills ==
    /\ pc = "kills"
    /\ IF KillBoundsFail(filtered_by_group)
         THEN /\ Raise("ValueError")
              /\ UNCHANGED <<min_kills, max_kills, kill_filter, kill_ctl>>
         ELSE LET ks == { FillNa(df[i].nkill) : i \in filtered_by_group }
                  lo == SetMin(ks)
                  hi == SetMax(ks)
              IN /\ min_kills' = lo
                 /\ max_kills' = hi
                 /\ IF SafeSliderLocks(lo, hi)
                      THEN kill_ctl' = "locked" /\ kill_filter' = lo
                      ELSE kill_ctl' = "slider" /\ kill_filter' \in lo..hi
                 /\ pc' = "keyword"
                 /\ UNCHANGED err
    /\ UNCHANGED <<raw, cache, df, group_list, group,
                   filtered_by_group, country_list, country,
                   min_year, max_year, year_range, year_ctl,
                   attack_types, selected_types, keyword, page, prev>>

\* line 80
EnterKeyword ==
    /\ pc = "keyword"
    /\ keyword' \in Keywords
    /\ pc' = "apply"
    /\ UNCHANGED <<raw, cache, df, err, group_list, group,
                   filtered_by_group, country_list, country,
                   min_year, max_year, year_range, year_ctl,
                   attack_types, selected_types, min_kills, max_kills,
                   kill_filter, kill_ctl, page, prev>>

\* line 87: between() is inclusive at both ends; a scalar is compared
\* for equality
YearMask(y, yr) == IF yr.tuple THEN yr.lo <= y /\ y <= yr.hi ELSE y = yr.lo

\* the mask without its country term
ApplyMaskAnyCountry(t, rows, c, yr, types, floor) ==
    { i \in rows :
        /\ YearMask(t[i].iyear, yr)
        /\ t[i].attacktype1_txt \in types
        /\ FillNa(t[i].nkill) >= floor }

\* lines 85-90: the rows of the group's frame the four masks keep
ApplyMask(t, rows, c, yr, types, floor) ==
    { i \in rows :
        /\ PdEq(t[i].country_txt, c)
        /\ YearMask(t[i].iyear, yr)
        /\ t[i].attacktype1_txt \in types
        /\ FillNa(t[i].nkill) >= floor }

\* lines 85-90
ApplyFilters ==
    /\ pc = "apply"
    /\ filtered' = ApplyMask(df, filtered_by_group, country, year_range,
                             selected_types, kill_filter)
    /\ pc' = "search"
    /\ UNCHANGED <<raw, cache, df, err, sidebar, warning, metrics,
                   outputs, prev>>

\* line 93: the rows whose summary the keyword's pattern is found in
KeywordMask(t, rows, kw) == { i \in rows : StrContains(t[i].summary, kw) }

\* lines 92-93: str.contains compiles the pattern whatever the frame holds
KeywordFilter ==
    /\ pc = "search"
    /\ IF keyword = <<>>
         THEN pc' = "summary" /\ UNCHANGED <<filtered, err>>
       ELSE IF ~ReCompiles(keyword)
         THEN Raise("re.error") /\ UNCHANGED filtered
       ELSE /\ filtered' = KeywordMask(df, filtered, keyword)
            /\ pc' = "summary"
            /\ UNCHANGED err
    /\ UNCHANGED <<raw, cache, df, sidebar, warning, metrics, outputs, prev>>

RECURSIVE SumKills(_, _)
SumKills(t, rows) ==
    IF rows = {} THEN 0
    ELSE LET i == CHOOSE j \in rows : TRUE
         IN t[i].nkill + SumKills(t, rows \ {i})

\* line 103: len(filtered)
TotalEvents(t, rows) == Cardinality(rows)
\* the sum taken over the group's frame instead of the filtered one
FatalitiesOfGroup(t, rows) == SumKills(t, filtered_by_group)

\* line 104: int(filtered['nkill'].sum())
Fatalities(t, rows) == SumKills(t, rows)
\* line 105: nunique() leaves nulls out
NUnique(t, rows) == Cardinality(Unique(t, rows, "country_txt"))

\* lines 98-105: the warning and st.stop(), or the three metrics
SummaryOrWarning ==
    /\ pc = "summary"
    /\ IF filtered = {}
         THEN /\ warning' = TRUE
              /\ pc' = "stopped"
              /\ UNCHANGED <<metrics, outputs>>
         ELSE /\ metrics' = [events |-> TotalEvents(df, filtered),
                             fatalities |-> Fatalities(df, filtered),
                             countries |-> NUnique(df, filtered)]
              /\ outputs' = Append(outputs, "metrics")
              /\ pc' = "tabs"
              /\ UNCHANGED warning
    /\ UNCHANGED <<raw, cache, df, err, sidebar, filtered, prev>>

\* line 113: the columns the data table selects
TableColumns == {"date", "city", "attacktype1_txt", "nkill", "nwound", "summary"}

\* lines 120-135: the map needs both coordinate columns and a row that
\* has both; the frame has neither column, the placeholder is rendered
MapOutput ==
    IF {"latitude", "longitude"} \subseteq Columns THEN "map" ELSE "map_info"

\* lines 110-145: the three tabs and the export; selecting a column the
\* frame does not have raises KeyError in the first tab
RenderTabs ==
    /\ pc = "tabs"
    /\ IF TableColumns \subseteq Columns
         THEN /\ outputs' = outputs \o <<"table", "histogram", MapOutput, "csv">>
              /\ pc' = "done"
              /\ UNCHANGED err
         ELSE Raise("KeyError") /\ UNCHANGED outputs
    /\ UNCHANGED <<raw, cache, df, sidebar, filtered, warning, metrics, prev>>

\* An interaction after the run has ended (st.stop, an exception or the
\* end of the script): Streamlit runs the script again from the top.
Rerun ==
    /\ pc \in {"stopped", "error", "done"}
    /\ pc' = "load"
    /\ prev' = [ran |-> cache.hit, group |-> group, country |-> country,
                group_list |-> group_list, country_list |-> country_list]
    /\ df' = <<>>
    /\ err' = "none"
    /\ group_list' = {} /\ group' = None
    /\ filtered_by_group' = {}
    /\ country_list' = {} /\ country' = None
    /\ min_year' = None /\ max_year' = None
    /\ year_range' = Scalar(None) /\ year_ctl' = "none"
    /\ attack_types' = {} /\ selected_types' = {}
    /\ min_kills' = None /\ max_kills' = None
    /\ kill_filter' = None /\ kill_ctl' = "none"
    /\ keyword' = <<>>
    /\ filtered' = {}
    /\ warning' = FALSE
    /\ metrics' = NoMetrics
    /\ outputs' = <<>>
    /\ UNCHANGED <<raw, cache>>

Next ==
    \/ Load
    \/ SelectGroup
    \/ SelectCountry
    \/ SelectYears
    \/ SelectTypes
    \/ SelectKills
    \/ EnterKeyword
    \/ ApplyFilters
    \/ KeywordFilter
    \/ SummaryOrWarning
    \/ RenderTabs
    \/ Rerun

Spec == Init /\ [][Next]_vars

\* ------------------------------------------------- where the run is
\* The statement an exception was raised in.
ErrAt ==
    CASE err = "ValueError" -> "kills"
      [] err = "re.error" -> "search"
      [] err = "KeyError" /\ cache.hit -> "tabs"
      [] OTHER -> "load"

Rank(s) ==
    CASE s = "load" -> 0
      [] s = "group" -> 1
      [] s = "country" -> 2
      [] s = "years" -> 3
      [] s = "types" -> 4
      [] s = "kills" -> 5
      [] s = "keyword" -> 6
      [] s = "apply" -> 7
      [] s = "search" -> 8
      [] s = "summary" -> 9
      [] s = "tabs" -> 10
      [] s = "stopped" -> 10
      [] s = "done" -> 11

\* Statement s of this run has completed.
Completed(s) ==
    IF pc = "error" THEN Rank(ErrAt) > Rank(s) ELSE Rank(pc) > Rank(s)

\* Statement s of this run raised.
Failed(s) == pc = "error" /\ ErrAt = s

Ended == pc \in {"stopped", "error", "done"}

MetricsShown == outputs # <<>> /\ outputs[1] = "metrics"

\* The rows of the table whose group is the selected group.
GroupRows == { i \in Idx : df[i].gname # None /\ df[i].gname = group }

IsMinOf(v, S) == v \in S /\ \A x \in S : v <= x
IsMaxOf(v, S) == v \in S /\ \A x \in S : x <= v

\* sub occurs in s, letter case ignored
IsSubstring(sub, s) ==
    \E k \in 0..(Len(s) - Len(sub)) :
        \A j \in 1..Len(sub) : Lower(s[k + j]) = Lower(sub[j])

\* The predicates of the filter contract on row i.
FourPredicates(i) ==
    /\ df[i].country_txt = country
    /\ IF year_range.tuple
         THEN year_range.lo <= df[i].iyear /\ df[i].iyear <= year_range.hi
         ELSE df[i].iyear = year_range.lo
    /\ df[i].attacktype1_txt \in selected_types
    /\ df[i].nkill >= kill_filter

RECURSIVE KillsUpTo(_)
KillsUpTo(n) ==
    IF n = 0 THEN 0
    ELSE (IF n \in filtered THEN df[n].nkill ELSE 0) + KillsUpTo(n - 1)

\* ------------------------------------------------------------- claims

\* C1: once the filter has run, the result is a subset of the table and a
\* row of the selected group is in it if and only if its country is the
\* selected one, its year is in the selected range (or is the fixed year),
\* its attack type is selected, its fatalities reach the floor and, when a
\* keyword is given, its summary contains the keyword, case ignored.
C1_FilterIsTheConjunction ==
    Completed("search") =>
        /\ filtered \subseteq Idx
        /\ \A i \in GroupRows :
              i \in filtered <=>
                 /\ FourPredicates(i)
                 /\ keyword # <<>> => IsSubstring(keyword, df[i].summary)

\* C2: a run whose filter masks keep no row does not fail in filtering:
\* it shows the warning and stops, with no metrics, table, histogram, map
\* or export rendered, and the cached table stays loaded.
C2_EmptyResultWarnsAndStops ==
    (Ended /\ Completed("apply") /\ filtered = {}) =>
        /\ pc = "stopped"
        /\ err = "none"
        /\ warning
        /\ outputs = <<>>
        /\ cache.hit

\* C3: a run whose filtered result is not empty ends only after the
\* metrics, the data table, the histogram, the map (or its placeholder)
\* and the export have been rendered, in that order, without an error.
C3_NonEmptyRendersAll ==
    (Ended /\ Completed("search") /\ filtered # {}) =>
        /\ pc = "done"
        /\ err = "none"
        /\ outputs = <<"metrics", "table", "histogram", MapOutput, "csv">>

\* C4: when the selected group has no row, the computation of the year
\* bounds and of the fatality bounds does not fail and both pairs of
\* bounds are the minimum and maximum of the full table.
C4_EmptyGroupFallsBack ==
    ((Completed("kills") \/ Failed("kills")) /\ GroupRows = {}) =>
        /\ err = "none"
        /\ IsMinOf(min_year, { df[i].iyear : i \in Idx })
        /\ IsMaxOf(max_year, { df[i].iyear : i \in Idx })
        /\ IsMinOf(min_kills, { df[i].nkill : i \in Idx })
        /\ IsMaxOf(max_kills, { df[i].nkill : i \in Idx })

\* C5: for the year filter and the fatality filter, a domain whose minimum
\* equals its maximum gives a locked value and no slider, the value being
\* that single scalar; a domain with minimum < maximum gives a slider over
\* [min, max], whose value is a (low, high) pair for the year filter and a
\* scalar for the fatality filter.
C5_DegenerateDomainIsLocked ==
    /\ Completed("years") =>
          IF min_year = max_year
            THEN /\ year_ctl = "locked"
                 /\ ~year_range.tuple
                 /\ year_range.lo = min_year
            ELSE /\ min_year < max_year
                 /\ year_ctl = "slider"
                 /\ year_range.tuple
                 /\ min_year <= year_range.lo
                 /\ year_range.lo <= year_range.hi
                 /\ year_range.hi <= max_year
    /\ Completed("kills") =>
          IF min_kills = max_kills
            THEN kill_ctl = "locked" /\ kill_filter = min_kills
            ELSE /\ min_kills < max_kills
                 /\ kill_ctl = "slider"
                 /\ min_kills <= kill_filter
                 /\ kill_filter <= max_kills

\* C5 witness: both filters have been set up, one collapsed and one not.
C5_Witness ==
    /\ Completed("kills")
    /\ year_ctl = "slider" /\ year_range.lo < year_range.hi
    /\ kill_ctl = "locked"

\* C6 as stated: the year bounds are the minimum and maximum year of the
\* rows of the selected group (and likewise every other domain).
C6_DomainsFromGroupRowsOnly ==
    /\ Completed("group") => group_list = { df[i].gname : i \in Idx } \ {None}
    /\ Completed("country") =>
          country_list = { df[i].country_txt : i \in GroupRows } \ {None}
    /\ Completed("years") =>
          /\ IsMinOf(min_year, { df[i].iyear : i \in GroupRows })
          /\ IsMaxOf(max_year, { df[i].iyear : i \in GroupRows })

\* C6 amended: the group domain is the set of non-null groups of the full
\* table; the country domain, the attack-type domain and the fatality
\* bounds come from exactly the rows of the selected group; the year
\* bounds come from those rows too, and from the full table when the
\* selected group has no row.  A run that keeps the previous run's group
\* has the previous run's group domain and country domain.
C6_DomainsFromGroupRowsOrTable ==
    /\ Completed("group") => group_list = { df[i].gname : i \in Idx } \ {None}
    /\ Completed("country") =>
          /\ filtered_by_group = GroupRows
          /\ country_list = { df[i].country_txt : i \in GroupRows } \ {None}
    /\ Completed("years") =>
          LET rows == IF GroupRows = {} THEN Idx ELSE GroupRows
          IN /\ IsMinOf(min_year, { df[i].iyear : i \in rows })
             /\ IsMaxOf(max_year, { df[i].iyear : i \in rows })
    /\ Completed("types") =>
          attack_types = { df[i].attacktype1_txt : i \in GroupRows } \ {None}
    /\ Completed("kills") =>
          /\ IsMinOf(min_kills, { df[i].nkill : i \in GroupRows })
          /\ IsMaxOf(max_kills, { df[i].nkill : i \in GroupRows })
    /\ (pc = "years" /\ prev.ran /\ prev.group = group) =>
          /\ group_list = prev.group_list
          /\ country_list = prev.country_list

\* C6 witness: a later run that keeps the group and changes the country.
C6_Witness ==
    /\ pc = "years"
    /\ prev.ran
    /\ group # None
    /\ prev.group = group
    /\ prev.country # country

\* C7: when the metrics are shown, the event count is the number of rows
\* of the filtered result, the fatalities are the sum of nkill over
\* exactly those rows, and the countries metric is the number of distinct
\* countries among them.
C7_MetricsAggregateTheResult ==
    MetricsShown =>
        /\ metrics.events = Cardinality(filtered)
        /\ metrics.fatalities = KillsUpTo(Len(df))
        /\ metrics.countries =
              Cardinality({ df[i].country_txt : i \in filtered })

\* C7 witness: metrics over a result that leaves out a row of the group
\* and has fatalities to add up.
C7_Witness ==
    /\ MetricsShown
    /\ filtered # filtered_by_group
    /\ metrics.fatalities > 0

\* C8: once the load has succeeded, in every later state of every run,
\* each row of the cached table has non-null fatalities and wounded (0 for
\* a null of the source) and an integer year, the cached table is row for
\* row what load made of the query's result, and the script's table is
\* the cached one.
C8_LoadedTableIsCleanAndFixed ==
    cache.hit =>
        /\ Len(cache.value) = Len(raw)
        /\ \A i \in 1..Len(raw) :
              LET r == cache.value[i]
              IN /\ r.nkill # None /\ r.nwound # None
                 /\ r.nkill = (IF raw[i].nkill = None THEN 0 ELSE raw[i].nkill)
                 /\ r.nwound = (IF raw[i].nwound = None THEN 0 ELSE raw[i].nwound)
                 /\ r.iyear \in Years /\ r.iyear = raw[i].year
                 /\ r.gname = raw[i].gname
                 /\ r.country_txt = raw[i].country_txt
                 /\ r.city = raw[i].city
                 /\ r.attacktype1_txt = raw[i].attacktype1_txt
                 /\ r.summary = <<>>
        /\ pc # "load" => df = cache.value

\* C8 witness: a second or later run over a table loaded from a result
\* with null casualty cells, after a run that filtered and rendered.
C8_Witness ==
    /\ cache.hit
    /\ pc = "country"
    /\ prev.ran
    /\ \E i \in 1..Len(raw) : raw[i].nkill = None /\ raw[i].nwound = None

\* C9: with a non-empty keyword the filtered result is empty, and the run
\* ends on the warning.
C9_KeywordEmptiesResult ==
    (keyword # <<>> /\ Completed("search")) =>
        /\ filtered = {}
        /\ Ended => (pc = "stopped" /\ warning)

\* C10: when the metrics are shown, the countries metric is 1 and every
\* row of the result has the selected group and the selected country.
C10_OneCountryOneGroup ==
    MetricsShown =>
        /\ metrics.countries = 1
        /\ group # None /\ country # None
        /\ \A i \in filtered :
              df[i].gname = group /\ df[i].country_txt = country

\* C10 witness: metrics for a group that has rows in two countries.
C10_Witness ==
    /\ MetricsShown
    /\ Cardinality({ df[i].country_txt : i \in filtered_by_group }) = 2

=============================================================================
